---- MODULE Spec2Model ----
(***************************************************************************)
(* A model of src/src/index.ts: the Result value (an object whose own      *)
(* properties are `type` and one of `value` / `error`), its methods        *)
(* isOk / isErr / map / mapErr, the constructors ok / err, and the         *)
(* adapters trySync / tryAsync.  The README's divide / doMath example is   *)
(* modelled as well.                                                       *)
(*                                                                         *)
(* Objects live in `heap`; a reference is an index into it, so two         *)
(* objects with equal properties are still two objects.  An object is a    *)
(* function from the names of its own properties to their values, so       *)
(* "has no error field" is  "error" \notin DOMAIN obj.                     *)
(***************************************************************************)
EXTENDS Integers, Sequences, FiniteSets, TLC

VARIABLES heap, tasks, last

vars == <<heap, tasks, last>>

(* ------------------------------ bounds -------------------------------- *)

\* Largest number of Result objects ever allocated in one behaviour.
MaxHeap == 2

\* Largest number of tryAsync invocations in one behaviour.
MaxTasks == 2

(* --------------------------- JavaScript values ------------------------ *)

Undefined == [k |-> "undefined", n |-> 0, s |-> ""]
Null == [k |-> "null", n |-> 0, s |-> ""]
Num(n) == [k |-> "number", n |-> n, s |-> ""]
Str(s) == [k |-> "string", n |-> 0, s |-> s]

\* Arguments handed to ok(...) and err(...).
ArgValues == {Undefined, Null, Num(5), Str("boom")}

\* Settlement values / rejection reasons of the promises handed to tryAsync.
PromiseValues == {Num(7), Str("x")}

\* Divisors handed to the README's divide(10, b): 0 and an exact divisor.
Divisors == {0, 2}

(* ------------------------------ callbacks ----------------------------- *)
\* The functions a caller passes to map / mapErr / trySync:
\*   identity   x => x
\*   const      () => c
\*   orElse     x => x ?? c
\*   throw      () => { throw c; }

Fn(kind, c) == [kind |-> kind, c |-> c]
Identity == Fn("identity", Undefined)
NoFn == Fn("none", Undefined)

Fns ==
  {Identity, Fn("const", Num(42)), Fn("const", Str("DivisionError")),
   Fn("orElse", Num(42)), Fn("throw", Str("boom")), Fn("throw", Undefined)}

TotalFns == {f \in Fns : f.kind # "throw"}

\* What a total callback computes on x.
Apply(f, x) ==
  CASE f.kind = "identity" -> x
    [] f.kind = "const" -> f.c
    [] f.kind = "orElse" -> IF x.k \in {"undefined", "null"} THEN f.c ELSE x
    [] OTHER -> Undefined

\* The outcome of invoking callback f on x: a normal return or a throw.
Call(f, x) ==
  IF f.kind = "throw"
    THEN [threw |-> TRUE, val |-> f.c]
    ELSE [threw |-> FALSE, val |-> Apply(f, x)]

(* ------------------------------ objects ------------------------------- *)

\* Object.create(resultProto): an object with no own property.
EmptyObject == [p \in {} |-> Undefined]

\* obj[key] = val on an object whose prototype does not define key.
SetProp(obj, key, val) ==
  [p \in (DOMAIN obj) \cup {key} |-> IF p = key THEN val ELSE obj[p]]

OkBase(value) == [type |-> "ok", value |-> value]
ErrBase(error) == [type |-> "err", error |-> error]

\* A createResult that copies both payload properties of its argument.
createResultBothFields(res) ==
  LET obj == EmptyObject
      value == IF "value" \in DOMAIN res THEN res.value ELSE Undefined
      error == IF "error" \in DOMAIN res THEN res.error ELSE Undefined
  IN  SetProp(SetProp(SetProp(obj, "type", res.type), "value", value),
              "error", error)

createResult(res) ==
  LET obj == EmptyObject
  IN  IF res.type = "ok"
        THEN SetProp(SetProp(obj, "type", "ok"), "value", res.value)
        ELSE SetProp(SetProp(obj, "type", "err"), "error", res.error)

isErr(this) == this.type = "err"

\* An isOk that looks for a defined value instead of reading the type.
isOkByValue(this) == "value" \in DOMAIN this /\ this.value # Undefined

isOk(this) == this.type = "ok"

(* ---------------------------- completions ----------------------------- *)
\* The result of running a synchronous operation on heap h: the heap it
\* leaves, whether it threw, the reference it returned (0 when it threw),
\* the value it threw, and the arguments its callback was invoked with,
\* one entry per invocation.

Returned(h, obj, calls) ==
  [heap |-> Append(h, obj), threw |-> FALSE, ret |-> Len(h) + 1,
   thrown |-> Undefined, calls |-> calls]

Threw(h, e, calls) ==
  [heap |-> h, threw |-> TRUE, ret |-> 0, thrown |-> e, calls |-> calls]

ok(h, value) == Returned(h, createResult(OkBase(value)), <<>>)

err(h, error) == Returned(h, createResult(ErrBase(error)), <<>>)

(* ----------------------------- map / mapErr --------------------------- *)

\* A map that invokes fn on the failure variant too.
mapCallsAlways(h, this, fn) ==
  IF h[this].type = "ok"
    THEN LET r == Call(fn, h[this].value)
         IN  IF r.threw
               THEN Threw(h, r.val, <<h[this].value>>)
               ELSE Returned(h, createResult(OkBase(r.val)), <<h[this].value>>)
    ELSE LET r == Call(fn, Undefined)
         IN  IF r.threw
               THEN Threw(h, r.val, <<Undefined>>)
               ELSE Returned(h, createResult(ErrBase(h[this].error)),
                             <<Undefined>>)

\* A map that catches what fn throws and wraps it in a failure.
mapCatching(h, this, fn) ==
  IF h[this].type = "ok"
    THEN LET r == Call(fn, h[this].value)
         IN  IF r.threw
               THEN Returned(h, createResult(ErrBase(r.val)), <<h[this].value>>)
               ELSE Returned(h, createResult(OkBase(r.val)), <<h[this].value>>)
    ELSE Returned(h, createResult(ErrBase(h[this].error)), <<>>)

\* A map that calls fn() without handing it the value.
mapDropsArgument(h, this, fn) ==
  IF h[this].type = "ok"
    THEN LET r == Call(fn, Undefined)
         IN  IF r.threw
               THEN Threw(h, r.val, <<Undefined>>)
               ELSE Returned(h, createResult(OkBase(r.val)), <<Undefined>>)
    ELSE Returned(h, createResult(ErrBase(h[this].error)), <<>>)

map(h, this, fn) ==
  IF h[this].type = "ok"
    THEN LET r == Call(fn, h[this].value)
         IN  IF r.threw
               THEN Threw(h, r.val, <<h[this].value>>)
               ELSE Returned(h, createResult(OkBase(r.val)), <<h[this].value>>)
    ELSE Returned(h, createResult(ErrBase(h[this].error)), <<>>)

\* A mapErr whose test reads 'ok' where it should read 'err'.
mapErrWrongBranch(h, this, fn) ==
  IF h[this].type = "ok"
    THEN LET r == Call(fn, Undefined)
         IN  IF r.threw
               THEN Threw(h, r.val, <<Undefined>>)
               ELSE Returned(h, createResult(ErrBase(r.val)), <<Undefined>>)
    ELSE Returned(h, createResult(ErrBase(h[this].error)), <<>>)

\* A mapErr that hands back the receiver itself when there is nothing to map.
mapErrReturnsThis(h, this, fn) ==
  IF h[this].type = "err"
    THEN LET r == Call(fn, h[this].error)
         IN  IF r.threw
               THEN Threw(h, r.val, <<h[this].error>>)
               ELSE Returned(h, createResult(ErrBase(r.val)), <<h[this].error>>)
    ELSE [heap |-> h, threw |-> FALSE, ret |-> this, thrown |-> Undefined,
          calls |-> <<>>]

mapErr(h, this, fn) ==
  IF h[this].type = "err"
    THEN LET r == Call(fn, h[this].error)
         IN  IF r.threw
               THEN Threw(h, r.val, <<h[this].error>>)
               ELSE Returned(h, createResult(ErrBase(r.val)), <<h[this].error>>)
    ELSE Returned(h, createResult(OkBase(h[this].value)), <<>>)

(* ------------------------------ adapters ------------------------------ *)

\* A trySync without its catch block.
trySyncNoCatch(h, fn) ==
  LET r == Call(fn, Undefined)
  IN  IF r.threw
        THEN Threw(h, r.val, <<Undefined>>)
        ELSE [ok(h, r.val) EXCEPT !.calls = <<Undefined>>]

\* try { return ok(fn()); } catch (e) { return err(e); }
\* fn is invoked with no argument, so its parameter reads undefined.
trySync(h, fn) ==
  LET r == Call(fn, Undefined)
      body == IF r.threw THEN Threw(h, r.val, <<Undefined>>) ELSE ok(h, r.val)
  IN  IF body.threw
        THEN [err(h, body.thrown) EXCEPT !.calls = <<Undefined>>]
        ELSE [body EXCEPT !.calls = <<Undefined>>]

\* A tryAsync without its catch block: a rejection rejects its promise.
tryAsyncBodyNoCatch(h, pstate, pval) ==
  IF pstate = "rejected" THEN Threw(h, pval, <<>>) ELSE ok(h, pval)

\* The part of tryAsync that runs once `await promise` has an outcome:
\* a fulfilled promise gives its value to ok, a rejected one throws its
\* reason into the catch block.
tryAsyncBody(h, pstate, pval) ==
  LET body == IF pstate = "rejected" THEN Threw(h, pval, <<>>) ELSE ok(h, pval)
  IN  IF body.threw THEN err(h, body.thrown) ELSE body

\* An await that does not wait.
AwaitAlwaysReady(task) == TRUE

\* `await promise` lets the function continue only once promise is settled.
AwaitReady(task) == task.pstate # "pending"

(* ----------------------- README: divide / doMath ---------------------- *)

divide(h, a, b) ==
  IF b = 0 THEN err(h, Str("ZeroDivisionError")) ELSE ok(h, Num(a \div b))

doMath(h, randomNum) ==
  LET d == divide(h, 10, randomNum)
  IN  mapErr(d.heap, d.ret, Fn("const", Str("DivisionError")))

(* ------------------------------- state -------------------------------- *)
\* heap   the Result objects created so far, in creation order;
\* tasks  one entry per tryAsync invocation: the state of the promise it
\*        was handed (pstate, pval), where the async function stands (pc)
\*        and the state of the promise it returned (ostate, ores, oreason);
\* last   what the caller of the latest operation observed.

Refs == 1..Len(heap)

TaskIds == 1..Len(tasks)

Awaiting == Cardinality({t \in TaskIds : tasks[t].pc = "await"})

\* Every suspended tryAsync keeps one heap cell in reserve, so that the
\* bound on the heap never stops a continuation from running.
Fits(c) == Len(c.heap) + Awaiting <= MaxHeap

Obs(op, recv, fn, arg, c) ==
  [op |-> op, recv |-> recv, fn |-> fn, arg |-> arg, threw |-> c.threw,
   ret |-> c.ret, thrown |-> c.thrown, calls |-> c.calls, bool |-> FALSE]

NoCompletion == [threw |-> FALSE, ret |-> 0, thrown |-> Undefined, calls |-> <<>>]

Init ==
  /\ heap = <<>>
  /\ tasks = <<>>
  /\ last = Obs("none", 0, NoFn, Undefined, NoCompletion)

Sync(op, recv, fn, arg, c) ==
  /\ Fits(c)
  /\ heap' = c.heap
  /\ last' = Obs(op, recv, fn, arg, c)
  /\ UNCHANGED tasks

OkCall == \E v \in ArgValues : Sync("ok", 0, NoFn, v, ok(heap, v))

ErrCall == \E e \in ArgValues : Sync("err", 0, NoFn, e, err(heap, e))

IsOkCall ==
  \E r \in Refs :
    /\ last' = [Obs("isOk", r, NoFn, Undefined, NoCompletion)
                  EXCEPT !.bool = isOk(heap[r])]
    /\ UNCHANGED <<heap, tasks>>

IsErrCall ==
  \E r \in Refs :
    /\ last' = [Obs("isErr", r, NoFn, Undefined, NoCompletion)
                  EXCEPT !.bool = isErr(heap[r])]
    /\ UNCHANGED <<heap, tasks>>

MapCall ==
  \E r \in Refs, f \in Fns : Sync("map", r, f, Undefined, map(heap, r, f))

MapErrCall ==
  \E r \in Refs, f \in Fns : Sync("mapErr", r, f, Undefined, mapErr(heap, r, f))

TrySyncCall == \E f \in Fns : Sync("trySync", 0, f, Undefined, trySync(heap, f))

DivideCall ==
  \E b \in Divisors : Sync("divide", 0, NoFn, Num(b), divide(heap, 10, b))

DoMathCall ==
  \E b \in Divisors : Sync("doMath", 0, NoFn, Num(b), doMath(heap, b))

\* tryAsync(promise) runs up to `await promise` and hands its caller the
\* promise of the async function, which nothing has settled yet.  The
\* promise passed in may be pending or already settled.
TryAsyncCall ==
  \E st \in {"pending", "fulfilled", "rejected"}, v \in PromiseValues :
    /\ Len(tasks) < MaxTasks
    /\ Len(heap) + Awaiting + 1 <= MaxHeap
    \* a pending promise has no value yet: v is not read, take it once
    /\ st = "pending" => v = Num(7)
    /\ tasks' = Append(tasks,
         [pstate |-> st, pval |-> IF st = "pending" THEN Undefined ELSE v,
          pc |-> "await", ostate |-> "pending", ores |-> 0,
          oreason |-> Undefined])
    /\ last' = [Obs("tryAsync", 0, NoFn, Undefined, NoCompletion)
                  EXCEPT !.ret = Len(tasks) + 1]
    /\ UNCHANGED heap

\* The environment settles a pending promise that was handed to tryAsync.
Settle ==
  \E t \in TaskIds, st \in {"fulfilled", "rejected"}, v \in PromiseValues :
    /\ tasks[t].pstate = "pending"
    /\ tasks' = [tasks EXCEPT ![t].pstate = st, ![t].pval = v]
    /\ last' = Obs("settle", t, NoFn, v, NoCompletion)
    /\ UNCHANGED heap

\* The microtask that continues a suspended tryAsync after its await.
Resume ==
  \E t \in TaskIds :
    /\ tasks[t].pc = "await"
    /\ AwaitReady(tasks[t])
    /\ LET c == tryAsyncBody(heap, tasks[t].pstate, tasks[t].pval)
       IN  /\ heap' = c.heap
           /\ tasks' = [tasks EXCEPT
                ![t].pc = "done",
                ![t].ostate = IF c.threw THEN "rejected" ELSE "fulfilled",
                ![t].ores = c.ret,
                ![t].oreason = c.thrown]
           /\ last' = Obs("resume", t, NoFn, Undefined, c)

Next ==
  \/ OkCall
  \/ ErrCall
  \/ IsOkCall
  \/ IsErrCall
  \/ MapCall
  \/ MapErrCall
  \/ TrySyncCall
  \/ DivideCall
  \/ DoMathCall
  \/ TryAsyncCall
  \/ Settle
  \/ Resume

Spec == Init /\ [][Next]_vars

\* The job queue of the JavaScript run time runs every queued microtask,
\* so a continuation that can run does run.
FairSpec == Spec /\ WF_vars(Resume)

(* ------------------------------ claims -------------------------------- *)

\* obj is a success Result whose value is v / a failure whose error is e.
IsSuccess(obj, v) ==
  "type" \in DOMAIN obj /\ obj.type = "ok" /\ "value" \in DOMAIN obj /\ obj.value = v

IsFailure(obj, e) ==
  "type" \in DOMAIN obj /\ obj.type = "err" /\ "error" \in DOMAIN obj /\ obj.error = e

\* C1: trySync(fn) never raises: when fn returns v the caller gets a
\* success Result with value v, when fn throws e (an Error or any other
\* value) the caller gets a failure Result whose error is exactly e.
C1_TrySyncCaptures ==
  last.op = "trySync" =>
    /\ ~last.threw
    /\ last.ret \in Refs
    /\ LET r == Call(last.fn, Undefined)
       IN  IF r.threw
             THEN IsFailure(heap[last.ret], r.val)
             ELSE IsSuccess(heap[last.ret], r.val)

C1_Witness ==
  /\ last.op = "trySync"
  /\ last.fn = Fn("throw", Str("boom"))
  /\ ~last.threw
  /\ IsFailure(heap[last.ret], Str("boom"))

\* C2: the promise tryAsync returned never rejects; once it is fulfilled it
\* holds a success Result with p's value if p fulfilled and a failure
\* Result with exactly p's reason if p rejected; and once p is settled the
\* returned promise is eventually fulfilled.
C2_TryAsyncSettles ==
  /\ [](\A t \in TaskIds :
          /\ tasks[t].ostate # "rejected"
          /\ tasks[t].ostate = "fulfilled" =>
               /\ tasks[t].ores \in Refs
               /\ tasks[t].pstate = "fulfilled" =>
                    IsSuccess(heap[tasks[t].ores], tasks[t].pval)
               /\ tasks[t].pstate = "rejected" =>
                    IsFailure(heap[tasks[t].ores], tasks[t].pval)
               /\ tasks[t].pstate # "pending")
  /\ \A t \in 1..MaxTasks :
       (t \in TaskIds /\ tasks[t].pstate # "pending")
         ~> (t \in TaskIds /\ tasks[t].ostate = "fulfilled")

C2_Witness ==
  \E t \in TaskIds :
    /\ tasks[t].pstate = "rejected"
    /\ tasks[t].pval = Str("x")
    /\ tasks[t].ostate = "fulfilled"
    /\ IsFailure(heap[tasks[t].ores], Str("x"))

\* C3: ok(v).map(f) is a success Result with value f(v) and f was invoked
\* exactly once, on v; err(e).map(f) is a failure Result with the same e
\* and f was not invoked.
C3_MapLaw ==
  last.op = "map" =>
    LET recv == heap[last.recv]
    IN  /\ (isOk(recv) /\ last.fn \in TotalFns) =>
             /\ ~last.threw
             /\ last.ret \in Refs
             /\ IsSuccess(heap[last.ret], Apply(last.fn, recv.value))
             /\ last.calls = <<recv.value>>
        /\ isErr(recv) =>
             /\ ~last.threw
             /\ last.ret \in Refs
             /\ IsFailure(heap[last.ret], recv.error)
             /\ last.calls = <<>>

C3_Witness ==
  /\ last.op = "map"
  /\ last.fn = Fn("orElse", Num(42))
  /\ IsSuccess(heap[last.recv], Null)
  /\ IsSuccess(heap[last.ret], Num(42))
  /\ Len(last.calls) = 1

\* C4: err(e).mapErr(g) is a failure Result with error g(e) and g was
\* invoked exactly once, on e; ok(v).mapErr(g) is a success Result with the
\* same v and g was not invoked; so doMath gives a failure 'DivisionError'
\* for divide(10, 0) and a success 5 for divide(10, 2).
C4_MapErrLaw ==
  /\ last.op = "mapErr" =>
       LET recv == heap[last.recv]
       IN  /\ (isErr(recv) /\ last.fn \in TotalFns) =>
                /\ ~last.threw
                /\ last.ret \in Refs
                /\ IsFailure(heap[last.ret], Apply(last.fn, recv.error))
                /\ last.calls = <<recv.error>>
           /\ isOk(recv) =>
                /\ ~last.threw
                /\ last.ret \in Refs
                /\ IsSuccess(heap[last.ret], recv.value)
                /\ last.calls = <<>>
  /\ last.op = "doMath" =>
       /\ ~last.threw
       /\ last.ret \in Refs
       /\ last.arg = Num(0) => IsFailure(heap[last.ret], Str("DivisionError"))
       /\ last.arg = Num(2) => IsSuccess(heap[last.ret], Num(5))

C4_Witness ==
  /\ last.op = "doMath"
  /\ last.arg = Num(0)
  /\ IsFailure(heap[last.ret - 1], Str("ZeroDivisionError"))
  /\ IsFailure(heap[last.ret], Str("DivisionError"))
  /\ last.calls = <<Str("ZeroDivisionError")>>

\* C5: ok(v) and err(e) succeed for every argument, null and undefined
\* included; isOk() is true and isErr() false on what ok returned, isErr()
\* is true and isOk() false on what err returned.
C5_Predicates ==
  /\ [](/\ last.op = "ok" =>
             /\ ~last.threw
             /\ last.ret \in Refs
             /\ isOk(heap[last.ret])
             /\ ~isErr(heap[last.ret])
        /\ last.op = "err" =>
             /\ ~last.threw
             /\ last.ret \in Refs
             /\ isErr(heap[last.ret])
             /\ ~isOk(heap[last.ret]))
  /\ [][/\ (last.op = "ok" /\ last'.op = "isOk" /\ last'.recv = last.ret)
             => last'.bool
        /\ (last.op = "ok" /\ last'.op = "isErr" /\ last'.recv = last.ret)
             => ~last'.bool
        /\ (last.op = "err" /\ last'.op = "isErr" /\ last'.recv = last.ret)
             => last'.bool
        /\ (last.op = "err" /\ last'.op = "isOk" /\ last'.recv = last.ret)
             => ~last'.bool]_vars

C5_Witness ==
  /\ last.op = "isOk"
  /\ IsSuccess(heap[last.recv], Undefined)
  /\ last.bool
  /\ \E r \in Refs : IsFailure(heap[r], Null)

\* C6: when map invokes its function (the receiver is a success) or mapErr
\* invokes its function (the receiver is a failure) and the function
\* throws, the caller gets that exception: nothing is returned, no Result
\* is created and the receiver is as it was.
C6_ThrowPropagates ==
  [][(/\ last'.op \in {"map", "mapErr"}
      /\ last'.fn.kind = "throw"
      /\ (last'.op = "map") => isOk(heap[last'.recv])
      /\ (last'.op = "mapErr") => isErr(heap[last'.recv]))
       => /\ last'.threw
          /\ last'.thrown = last'.fn.c
          /\ last'.ret = 0
          /\ heap' = heap]_vars

C6_Witness ==
  /\ last.op = "mapErr"
  /\ last.fn = Fn("throw", Str("boom"))
  /\ isErr(heap[last.recv])
  /\ last.threw
  /\ last.thrown = Str("boom")

\* C7: tryAsync hands its caller a pending promise whether or not p is
\* settled, and as long as p is pending the returned promise is pending.
C7_PendingWhilePending ==
  /\ \A t \in TaskIds : tasks[t].pstate = "pending" => tasks[t].ostate = "pending"
  /\ last.op = "tryAsync" =>
       /\ last.ret \in TaskIds
       /\ tasks[last.ret].ostate = "pending"

C7_Witness ==
  /\ last.op = "resume"
  /\ \E t \in TaskIds : tasks[t].pstate = "pending" /\ tasks[t].ostate = "pending"

\* C8: every Result ever created has type 'ok' with exactly the own
\* properties type and value, or type 'err' with exactly the own
\* properties type and error.
C8_Shape ==
  \A r \in Refs :
    /\ "type" \in DOMAIN heap[r]
    /\ \/ heap[r].type = "ok" /\ DOMAIN heap[r] = {"type", "value"}
       \/ heap[r].type = "err" /\ DOMAIN heap[r] = {"type", "error"}

C8_Witness ==
  /\ last.op = "resume"
  /\ \E r \in Refs : heap[r].type = "ok" /\ DOMAIN heap[r] = {"type", "value"}
  /\ \E r \in Refs : heap[r].type = "err" /\ DOMAIN heap[r] = {"type", "error"}

\* C9: no operation changes a Result that exists; isOk and isErr create
\* nothing; a map or mapErr that returns, returns a Result created by that
\* call, never the receiver.
C9_NoMutation ==
  [][/\ Len(heap') >= Len(heap)
     /\ \A r \in Refs : heap'[r] = heap[r]
     /\ last'.op \in {"isOk", "isErr"} => heap' = heap
     /\ (last'.op \in {"map", "mapErr"} /\ ~last'.threw) =>
          /\ Len(heap') = Len(heap) + 1
          /\ last'.ret = Len(heap) + 1
          /\ last'.ret # last'.recv]_vars

C9_Witness ==
  /\ last.op = "mapErr"
  /\ isOk(heap[last.recv])
  /\ ~last.threw
  /\ last.ret # last.recv
  /\ heap[last.ret] = heap[last.recv]

\* C10: r.map(x => x) and r.mapErr(x => x) return a Result with the
\* variant and the payload of r.
C10_Identity ==
  (last.op \in {"map", "mapErr"} /\ last.fn = Identity) =>
    /\ ~last.threw
    /\ last.ret \in Refs
    /\ heap[last.ret] = heap[last.recv]

C10_Witness ==
  /\ last.op = "map"
  /\ last.fn = Identity
  /\ \E t \in TaskIds : tasks[t].ores = last.recv
  /\ IsSuccess(heap[last.recv], Num(7))
  /\ IsSuccess(heap[last.ret], Num(7))

====
